---- MODULE Spec2Model ----
(***************************************************************************)
(* Model of src/app.py: a node-graph editor made of a zoom/pan view        *)
(* (ZoomPanView), nodes with one input and one output port (CustomNode),   *)
(* curved connections (ConnectionItem) and the scene that turns pointer    *)
(* events into connections (NodeEditorScene).                              *)
(***************************************************************************)
EXTENDS Integers, Sequences, FiniteSets, TLC

(***************************************************************************)
(* IEEE-754 binary64 values.  The view scale (QTransform.m11) is a double  *)
(* and the zoom-out factor 1/1.25 is not a dyadic number, so products are  *)
(* rounded.  A positive normal double is [m, e]: value = M * 2^e, where M  *)
(* is the 53-bit significand (2^52 <= M < 2^53) written as five base-4096  *)
(* digits, least significant first.                                        *)
(***************************************************************************)
Base == 2 ^ 12
MantBits == 53
Limbs == 5

Bit(ds, k) ==
    IF (k < 0) \/ (k \div 12) + 1 > Len(ds) THEN 0
    ELSE (ds[(k \div 12) + 1] \div (2 ^ (k % 12))) % 2

\* coefficient k of the product of two five-digit numbers, before carrying
DigitTerm(a, b, k, i) == IF (k + 1 - i) \in 1..Len(b) THEN a[i] * b[k + 1 - i] ELSE 0

DigitSum(a, b, k) ==
    DigitTerm(a, b, k, 1) + DigitTerm(a, b, k, 2) + DigitTerm(a, b, k, 3)
    + DigitTerm(a, b, k, 4) + DigitTerm(a, b, k, 5)

\* carry propagation: digits below Base, a last carry appended when there is one
Carry(ds) ==
    LET n == Len(ds)
        cin[i \in 1..(n + 1)] == IF i = 1 THEN 0 ELSE (ds[i - 1] + cin[i - 1]) \div Base
        digits == [i \in 1..n |-> (ds[i] + cin[i]) % Base]
    IN  IF cin[n + 1] = 0 THEN digits ELSE Append(digits, cin[n + 1])

\* exact product of two significands, as base-4096 digits
BigMul(a, b) == Carry([k \in 1..(Len(a) + Len(b) - 1) |-> DigitSum(a, b, k)])

\* index of the highest set bit; the top digit of a carried product is not 0
TopBit(ds) ==
    LET top == ds[Len(ds)]
    IN  12 * (Len(ds) - 1) + (CHOOSE k \in 0..11 : 2 ^ k <= top /\ top < 2 ^ (k + 1))

\* digit i of the 53 bits of ds that start at bit `shift`
LimbOf(ds, shift, i) ==
    LET part[k \in 0..12] ==
            IF k = 12 \/ 12 * (i - 1) + k > MantBits - 1 THEN 0
            ELSE Bit(ds, shift + 12 * (i - 1) + k) * (2 ^ k) + part[k + 1]
    IN  part[0]

\* the rounded significand r, renormalised when rounding carried into bit 53
Renormalise(r, e) ==
    IF r[Limbs] = 2 ^ (MantBits - 12 * (Limbs - 1))
    THEN [m |-> [i \in 1..Limbs |-> IF i = Limbs THEN 2 ^ (MantBits - 1 - 12 * (Limbs - 1)) ELSE 0],
          e |-> e + 1]
    ELSE [m |-> r, e |-> e]

RoundUp(P, shift) ==
    /\ Bit(P, shift - 1) = 1
    /\ \/ Bit(P, shift) = 1
       \/ \E j \in 0..(shift - 2) : Bit(P, j) = 1

RoundAt(P, e, shift, q) ==
    Renormalise(IF RoundUp(P, shift) THEN Carry([q EXCEPT ![1] = q[1] + 1]) ELSE q,
                e + shift)

\* (a value bound by a set constructor is computed once)
RoundShift(P, e, shift) ==
    CHOOSE r \in {RoundAt(P, e, shift, q) : q \in {[i \in 1..Limbs |-> LimbOf(P, shift, i)]}} : TRUE

\* round-to-nearest, ties-to-even, of the exact value P * 2^e to 53 bits
RoundDouble(P, e) ==
    CHOOSE r \in {RoundShift(P, e, shift) : shift \in {TopBit(P) - (MantBits - 1)}} : TRUE

\* x * y in double arithmetic
FMul(x, y) == CHOOSE r \in {RoundDouble(P, x.e + y.e) : P \in {BigMul(x.m, y.m)}} : TRUE

MantLess(a, b) ==
    \E i \in 1..Limbs : a[i] < b[i] /\ \A j \in (i + 1)..Limbs : a[j] = b[j]

\* x < y for positive normal doubles
FLess(x, y) == x.e < y.e \/ (x.e = y.e /\ MantLess(x.m, y.m))

FOne == [m |-> <<0, 0, 0, 0, 16>>, e |-> -52]

\* ZoomPanView.__init__: zoom limits 0.25 and 4.0
min_zoom == [m |-> <<0, 0, 0, 0, 16>>, e |-> -54]
max_zoom == [m |-> <<0, 0, 0, 0, 16>>, e |-> -50]

\* wheelEvent: zoom_in_factor = 1.25 (0x1.4p+0); zoom_out_factor = 1 / 1.25,
\* which is the double 0x1.999999999999ap-1
zoom_in_factor  == [m |-> <<0, 0, 0, 0, 20>>, e |-> -52]
zoom_out_factor == [m |-> <<2458, 2457, 2457, 2457, 25>>, e |-> -53]

\* wheel deltas: a notch forward, a notch back, and a purely horizontal scroll
WheelDeltas == {120, -120, 0}


(***************************************************************************)
(* Geometry of a CustomNode and the inputs of the model.                   *)
(***************************************************************************)
width == 150
height == 100
port_radius == 6
PortThreshold == 15

input_pos  == <<0, height \div 2>>
output_pos == <<width, height \div 2>>

\* positions a node is placed at or dragged to (on_add_node_clicked draws
\* x from 0..500 and y from 0..200): neighbouring nodes overlap at their
\* ports, and the odd one gives connections whose dx * 0.5 is not whole
NodePositions == {<<0, 0>>, <<151, 0>>, <<300, 0>>}

\* scene positions of pointer events: the input port of a node at (0, 0); the
\* input port of a node at (151, 0), at distance 1 from the output port of a
\* node at (0, 0); the input port of a node at (300, 0), at distance 1 from
\* the output port of a node at (151, 0).  They differ by the differences of
\* two node positions.  Presses are also tried at a point of a node at (0, 0)
\* that is at distance 15 from its output port.
PortPoints == {<<0, 50>>, <<151, 50>>, <<300, 50>>}
Points == PortPoints \cup {<<140, 55>>}

\* event.button(): the view keeps the right button, the scene's gesture test
\* asks for the left one, any other button is a third class
Buttons == {"Left", "Middle", "Right"}

\* bounds: the size of the scene, in which a node counts for four and a
\* connection for one, when the whole editor is explored (two nodes with
\* two connections) and when connections are drawn and nothing is dragged
\* (four nodes, or three nodes with four connections); the number of
\* connections constructed on their own; and the wheel requests of each kind
MaxSceneSize == 10
MaxGestureSceneSize == 16
MaxConstructed == 3
MaxZoomIn == 20
MaxZoomOut == 8

NoItem == 0
None == <<>>

VARIABLES
    scale,            \* ZoomPanView.transform().m11()
    zoomIns,          \* zoom-in requests handled so far
    zoomOuts,         \* zoom-out requests handled so far
    is_panning,       \* ZoomPanView._is_panning
    dragMode,         \* ZoomPanView.dragMode()
    buttons,          \* mouse buttons currently held (event.buttons())
    nodes,            \* CustomNode objects, in creation order: [pos, connections]
    conns,            \* ConnectionItem objects, in creation order: [start_item, end_item, path]
    sceneItems,       \* QGraphicsScene.items(), in insertion order
    line_in_progress, \* NodeEditorScene.line_in_progress: None or <<p1, p2>>
    start_item,       \* NodeEditorScene.start_item: NoItem or a node
    start_pos,        \* NodeEditorScene.start_pos: None or a point
    grabber,          \* QGraphicsScene.mouseGrabberItem(): NoItem or a node
    buttonDownScenePos,          \* the scene position stored for the left button
                                 \* when a node last took the grab with it down,
                                 \* or None when none has
    movingItemsInitialPositions, \* QGraphicsScene's record of where the nodes of a
                                 \* drag were when it began: a function from nodes
                                 \* to positions, emptied by the release that ends
                                 \* the grab
    last              \* the event handled last: for a release that ends a
                      \* connection gesture, its scene position, the gesture's
                      \* source node, the node under the pointer and whether a
                      \* connection was made; for a construction, the two nodes

zoomVars  == <<scale, zoomIns, zoomOuts>>
viewVars  == <<is_panning, dragMode, buttons>>
grabVars  == <<grabber, buttonDownScenePos, movingItemsInitialPositions>>
sceneVars == <<nodes, conns, sceneItems, line_in_progress, start_item, start_pos, grabVars>>
vars == <<zoomVars, viewVars, sceneVars, last>>

Event(op, pos, src, item, commit) ==
    [op |-> op, pos |-> pos, src |-> src, item |-> item, commit |-> commit]

\* an event of which nothing is recorded
Other == Event("other", None, NoItem, NoItem, FALSE)

\* the size of a scene with the nodes ns and the connections cs
SceneSize(ns, cs) == 4 * Len(ns) + Len(cs)

Abs(n) == IF n < 0 THEN -n ELSE n

\* QPointF.manhattanLength of a - b
manhattanLength(a, b) == Abs(a[1] - b[1]) + Abs(a[2] - b[2])

\* QGraphicsItem.mapToScene for an untransformed top-level item
mapToScene(node, pt) == <<node.pos[1] + pt[1], node.pos[2] + pt[2]>>

\* CustomNode.boundingRect, which is also the node's shape
boundingRect == [x |-> 0 - port_radius, y |-> 0, w |-> width + 2 * port_radius, h |-> height]

\* the point lies in the node's shape (left and top edges belong to it)
Contains(node, p) ==
    /\ node.pos[1] + boundingRect.x <= p[1]
    /\ p[1] < node.pos[1] + boundingRect.x + boundingRect.w
    /\ node.pos[2] + boundingRect.y <= p[2]
    /\ p[2] < node.pos[2] + boundingRect.y + boundingRect.h

\* QGraphicsScene.itemAt, as the handlers use it: the topmost node under p,
\* or NoItem when the topmost item is not a node.  Nodes have z = 0 and are
\* stacked in insertion order; connections have z = -1 and lie under them.
itemAt(items, ns, p) ==
    LET hits == {k \in 1..Len(items) : items[k][1] = "node" /\ Contains(ns[items[k][2]], p)}
    IN  IF hits = {} THEN NoItem
        ELSE items[CHOOSE k \in hits : \A j \in hits : j <= k][2]

\* ConnectionItem.__init__: the item holds its two nodes and an empty path
ConnectionItemSwapped(s, t) == [start_item |-> t, end_item |-> s, path |-> <<>>]

ConnectionItem(s, t) == [start_item |-> s, end_item |-> t, path |-> <<>>]

\* n * 0.5 for an integer n given as twice its value: the integer when it is
\* whole, the fraction <<numerator, 2>> when it is not
Halved(twice) == IF twice % 2 = 0 THEN twice \div 2 ELSE <<twice, 2>>

\* ConnectionItem.update_path: moveTo(start), cubicTo(ctrl1, ctrl2, end),
\* with the control points at x = start.x + dx * 0.5
PathBetweenInputPorts(c, ns) ==
    LET sp == mapToScene(ns[c.start_item], input_pos)
        ep == mapToScene(ns[c.end_item], input_pos)
        dx == ep[1] - sp[1]
        cx == Halved(2 * sp[1] + dx)
    IN  [c EXCEPT !.path = <<sp, <<cx, sp[2]>>, <<cx, ep[2]>>, ep>>]

update_path(c, ns) ==
    LET sp == mapToScene(ns[c.start_item], output_pos)
        ep == mapToScene(ns[c.end_item], input_pos)
        dx == ep[1] - sp[1]
        cx == Halved(2 * sp[1] + dx)
    IN  [c EXCEPT !.path = <<sp, <<cx, sp[2]>>, <<cx, ep[2]>>, ep>>]

InSeq(x, sq) == \E k \in 1..Len(sq) : sq[k] = x

\* CustomNode.itemChange(ItemPositionHasChanged): every attached connection
\* recomputes its path
itemChangeIgnored(cs, ns, n) == cs

itemChange(cs, ns, n) ==
    [j \in 1..Len(cs) |-> IF InSeq(j, ns[n].connections) THEN update_path(cs[j], ns) ELSE cs[j]]

\* QGraphicsItem.setPos(target[k]) on each node k of the domain of `target`
\* in turn, each followed by its itemChange when the position changes: the
\* nodes and connections after the last of them
MoveItems(ns, cs, target) ==
    LET step[k \in 0..Len(ns)] ==
            IF k = 0 THEN [nodes |-> ns, conns |-> cs]
            ELSE IF k \notin DOMAIN target THEN step[k - 1]
            ELSE IF target[k] = ns[k].pos THEN step[k - 1]
            ELSE LET placed == [step[k - 1].nodes EXCEPT ![k].pos = target[k]]
                 IN  [nodes |-> placed, conns |-> itemChange(step[k - 1].conns, placed, k)]
    IN  step[Len(ns)]

\* QGraphicsScene.removeItem
removeItemKept(items, ref) == items

removeItem(items, ref) == SelectSeq(items, LAMBDA it : it # ref)

\* mousePressEvent's test: the hit item is a node and the press is near its output port
StartsConnectionAnyPort(item, ns, p) ==
    /\ item # NoItem
    /\ \/ manhattanLength(p, mapToScene(ns[item], output_pos)) < PortThreshold
       \/ manhattanLength(p, mapToScene(ns[item], input_pos)) < PortThreshold

StartsConnection(item, ns, p) ==
    /\ item # NoItem
    /\ manhattanLength(p, mapToScene(ns[item], output_pos)) < PortThreshold

\* mouseReleaseEvent's test: the release is on another node, near its input port
ValidTargetNoSelfCheck(src, end_item, ns, p) ==
    /\ end_item # NoItem
    /\ manhattanLength(p, mapToScene(ns[end_item], input_pos)) < PortThreshold

ValidTarget(src, end_item, ns, p) ==
    /\ end_item # NoItem
    /\ src # end_item
    /\ manhattanLength(p, mapToScene(ns[end_item], input_pos)) < PortThreshold

\* mouseReleaseEvent: start_item.connections.append(conn); end_item.connections.append(conn)
RegisterAtSourceOnly(ns, s, t, c) ==
    [ns EXCEPT ![s].connections = Append(@, c)]

Register(ns, s, t, c) ==
    LET atSource == [ns EXCEPT ![s].connections = Append(@, c)]
    IN  [atSource EXCEPT ![t].connections = Append(@, c)]

\* the view's scale after QGraphicsView.scale(zoom_factor, zoom_factor):
\* QTransform.scale assigns the factor to a matrix it takes for the identity
\* (qFuzzyIsNull(m11 - 1): |m11 - 1| <= 1e-12, i.e. at most 4503 units in the
\* last place above 1.0 and 9007 below) and multiplies otherwise
FuzzyIdentity(s) ==
    \/ /\ s.e = -52
       /\ s.m[5] = 16 /\ s.m[4] = 0 /\ s.m[3] = 0
       /\ Base * s.m[2] + s.m[1] <= 4503
    \/ /\ s.e = -53
       /\ s.m[5] = 31 /\ s.m[4] = Base - 1 /\ s.m[3] = Base - 1
       /\ Base * Base - (Base * s.m[2] + s.m[1]) <= 9007

Scaled(current_scale, zoom_factor, product) ==
    IF FuzzyIdentity(current_scale) THEN zoom_factor ELSE product

\* wheelEvent's decision, given the product current_scale * zoom_factor
WheelApplyNoMaxCheck(current_scale, dy, product) ==
    IF dy > 0
    THEN Scaled(current_scale, zoom_in_factor, product)
    ELSE IF FLess(product, min_zoom) THEN current_scale
         ELSE Scaled(current_scale, zoom_out_factor, product)

WheelApplyClamp(current_scale, dy, product) ==
    IF dy > 0
    THEN IF FLess(max_zoom, product) THEN max_zoom
         ELSE Scaled(current_scale, zoom_in_factor, product)
    ELSE IF FLess(product, min_zoom) THEN min_zoom
         ELSE Scaled(current_scale, zoom_out_factor, product)

WheelApply(current_scale, dy, product) ==
    IF dy > 0
    THEN IF FLess(max_zoom, product) THEN current_scale
         ELSE Scaled(current_scale, zoom_in_factor, product)
    ELSE IF FLess(product, min_zoom) THEN current_scale
         ELSE Scaled(current_scale, zoom_out_factor, product)

\* the scale wheelEvent leaves behind, from the current scale and the wheel delta
WheelScale(current_scale, dy) ==
    CHOOSE r \in {WheelApply(current_scale, dy, product) :
                    product \in {FMul(current_scale,
                                      IF dy > 0 THEN zoom_in_factor ELSE zoom_out_factor)}} : TRUE

(***************************************************************************)
(* MainWindow.on_add_node_clicked: a node is created, placed (setPos runs  *)
(* itemChange on its still empty attachment list) and added to the scene.  *)
(***************************************************************************)
on_add_node_clicked(q) ==
    /\ LET node == [pos |-> q, connections |-> <<>>]
           ns   == Append(nodes, node)
       IN  /\ nodes' = ns
           /\ conns' = itemChange(conns, ns, Len(ns))
           /\ sceneItems' = Append(sceneItems, <<"node", Len(ns)>>)
    /\ last' = Other
    /\ UNCHANGED <<zoomVars, viewVars, line_in_progress, start_item, start_pos, grabVars>>

(***************************************************************************)
(* QGraphicsScene.mousePressEvent, for a press of button b at p: the press *)
(* goes to the node that holds the mouse grab; when there is none, the     *)
(* topmost node under the pointer takes the press and the grab, and the    *)
(* scene stores the position of the press for each button that is down.    *)
(* What it has stored for a button that is not down stays as it is.        *)
(***************************************************************************)
DefaultMousePress(b, p) ==
    LET item == itemAt(sceneItems, nodes, p)
    IN  /\ grabber' = IF grabber # NoItem THEN grabber ELSE item
        /\ buttonDownScenePos' =
              IF grabber = NoItem /\ item # NoItem /\ "Left" \in buttons \cup {b}
              THEN p
              ELSE buttonDownScenePos
        /\ UNCHANGED <<dragMode, nodes, conns, sceneItems, line_in_progress,
                       start_item, start_pos, movingItemsInitialPositions>>

(***************************************************************************)
(* NodeEditorScene.mousePressEvent, for a press of button b at p (the view *)
(* keeps right presses to itself)                                          *)
(***************************************************************************)
SceneMousePress(b, p) ==
    LET item == itemAt(sceneItems, nodes, p)
    IN  IF b = "Left" /\ StartsConnection(item, nodes, p)
        THEN LET output_port_pos == mapToScene(nodes[item], output_pos)
             IN  /\ start_item' = item
                 /\ start_pos' = output_port_pos
                 /\ dragMode' = "NoDrag"
                 /\ line_in_progress' = <<output_port_pos, output_port_pos>>
                 /\ sceneItems' = Append(sceneItems, <<"line", 0>>)
                 /\ last' = Other
                 /\ UNCHANGED <<nodes, conns, grabVars>>
        ELSE /\ DefaultMousePress(b, p)
             /\ last' = Other

\* ZoomPanView.mousePressEvent
ViewMousePress(b, p) ==
    /\ b \notin buttons
    /\ buttons' = buttons \cup {b}
    /\ UNCHANGED zoomVars
    /\ IF b = "Right"
       THEN /\ is_panning' = TRUE
            /\ last' = Other
            /\ UNCHANGED <<dragMode, sceneVars>>
       ELSE /\ SceneMousePress(b, p)
            /\ UNCHANGED is_panning

\* The second press of a double click arrives as mouseDoubleClickEvent, which
\* neither the view nor the scene overrides: it goes to
\* QGraphicsScene.mousePressEvent whatever the button
ViewMouseDoubleClick(b, p) ==
    /\ b \notin buttons
    /\ buttons' = buttons \cup {b}
    /\ DefaultMousePress(b, p)
    /\ last' = Other
    /\ UNCHANGED <<zoomVars, is_panning>>

(***************************************************************************)
(* NodeEditorScene.mouseMoveEvent at p; `replayed` tells an event that     *)
(* the view sends again from one that it sent earlier.  A node that holds  *)
(* the grab follows the pointer while the left button is down, and takes   *)
(* the other selected nodes with it.  Which nodes are selected             *)
(* (QGraphicsScene.selectedItems()) is decided by earlier clicks and by a  *)
(* rubber band that may be open during the drag, and is read by no handler *)
(* of the program: `others` is any set of the other nodes, at every move.  *)
(***************************************************************************)
SceneMouseMove(p, replayed, others) ==
    IF line_in_progress # None
    THEN /\ line_in_progress' = <<start_pos, p>>
         /\ UNCHANGED <<nodes, conns, sceneItems, start_item, start_pos, grabVars>>
    ELSE \* QGraphicsScene.mouseMoveEvent
         IF grabber = NoItem
         THEN UNCHANGED sceneVars
         ELSE IF buttons = {} /\ ~replayed
         THEN \* a move with no button down ends the grab and is not delivered
              /\ grabber' = NoItem
              /\ UNCHANGED <<nodes, conns, sceneItems, line_in_progress, start_item,
                             start_pos, buttonDownScenePos, movingItemsInitialPositions>>
         ELSE IF "Left" \in buttons
         THEN \* QGraphicsItem.mouseMoveEvent: each moving node goes to its
              \* initial position + p - the left button's press position,
              \* which is p itself when none is stored; a node without an
              \* initial position starts from (0, 0)
              LET from   == IF buttonDownScenePos = None THEN p ELSE buttonDownScenePos
                  moving == others \cup {grabber}
                  starts == IF DOMAIN movingItemsInitialPositions = {}
                            THEN [n \in moving |-> nodes[n].pos]
                            ELSE movingItemsInitialPositions
                  target == [n \in moving |->
                               LET o == IF n \in DOMAIN starts THEN starts[n] ELSE <<0, 0>>
                               IN  <<o[1] + p[1] - from[1], o[2] + p[2] - from[2]>>]
                  moved  == MoveItems(nodes, conns, target)
              IN  /\ nodes' = moved.nodes
                  /\ conns' = moved.conns
                  /\ movingItemsInitialPositions' = starts
                  /\ UNCHANGED <<sceneItems, line_in_progress, start_item, start_pos,
                                 grabber, buttonDownScenePos>>
         ELSE UNCHANGED sceneVars

\* the inputs worth trying for a move: the selection is read only by a move
\* that drags a node; such a move is tried at every port point, and any other
\* move at one point (where the free end of a temporary line is, is read by
\* no handler); GestureMovePoints are all the port points while a connection
\* is drawn
AnyPoint == CHOOSE p \in PortPoints : TRUE
Dragging == line_in_progress = None /\ grabber # NoItem /\ "Left" \in buttons
MovePoints == IF Dragging THEN PortPoints ELSE {AnyPoint}
GestureMovePoints == IF line_in_progress # None THEN PortPoints ELSE {AnyPoint}
MoveOthers == IF ~Dragging THEN {{}} ELSE SUBSET ((1..Len(nodes)) \ {grabber})

\* QGraphicsView replays the last mouse event it stored, as a move at its new
\* scene position, when the view scrolls or its transform changes; there is
\* nothing to replay before the view has seen a mouse event
ReplayLastMouseEvent ==
    \/ UNCHANGED sceneVars
    \/ \E q \in MovePoints, others \in MoveOthers : SceneMouseMove(q, TRUE, others)

\* ZoomPanView.mouseMoveEvent.  While panning the view scrolls and does not
\* pass the event on.
ViewMouseMove(p, others) ==
    /\ UNCHANGED <<zoomVars, is_panning, dragMode, buttons>>
    /\ IF is_panning
       THEN ReplayLastMouseEvent
       ELSE SceneMouseMove(p, FALSE, others)
    /\ last' = Other

(***************************************************************************)
(* ZoomPanView.wheelEvent                                                  *)
(***************************************************************************)
wheelEvent(dy) ==
    /\ IF dy > 0 THEN zoomIns < MaxZoomIn ELSE zoomOuts < MaxZoomOut
    /\ scale' = WheelScale(scale, dy)
    /\ zoomIns' = IF dy > 0 THEN zoomIns + 1 ELSE zoomIns
    /\ zoomOuts' = IF dy > 0 THEN zoomOuts ELSE zoomOuts + 1
    /\ IF scale' # scale
       THEN ReplayLastMouseEvent
       ELSE UNCHANGED sceneVars
    /\ UNCHANGED <<is_panning, dragMode, buttons, last>>

(***************************************************************************)
(* NodeEditorScene.mouseReleaseEvent, for a release at p that leaves the   *)
(* buttons in `held` down (event.buttons())                                *)
(***************************************************************************)
SceneMouseRelease(p, held) ==
    IF line_in_progress # None
    THEN LET items    == removeItem(sceneItems, <<"line", 0>>)
             end_item == itemAt(items, nodes, p)
         IN  /\ dragMode' = "RubberBandDrag"
             /\ IF ValidTarget(start_item, end_item, nodes, p)
                THEN LET c  == Len(conns) + 1
                         ns == Register(nodes, start_item, end_item, c)
                         cs == Append(conns, ConnectionItem(start_item, end_item))
                     IN  /\ sceneItems' = Append(items, <<"conn", c>>)
                         /\ nodes' = ns
                         /\ conns' = [cs EXCEPT ![c] = update_path(cs[c], ns)]
                         /\ last' = Event("release", p, start_item, end_item, TRUE)
                ELSE /\ sceneItems' = items
                     /\ last' = Event("release", p, start_item, end_item, FALSE)
                     /\ UNCHANGED <<nodes, conns>>
             /\ line_in_progress' = None
             /\ start_item' = NoItem
             /\ start_pos' = None
             /\ UNCHANGED grabVars
    ELSE \* QGraphicsScene.mouseReleaseEvent: the release goes to the grabbing
         \* node; when no button is left down the node forgets where the
         \* nodes of the drag began and loses the grab
         /\ grabber' = IF held = {} THEN NoItem ELSE grabber
         /\ movingItemsInitialPositions' =
               IF grabber # NoItem /\ held = {} THEN <<>> ELSE movingItemsInitialPositions
         /\ last' = Other
         /\ UNCHANGED <<dragMode, nodes, conns, sceneItems, line_in_progress,
                        start_item, start_pos, buttonDownScenePos>>

\* ZoomPanView.mouseReleaseEvent
ViewMouseRelease(b, p) ==
    /\ b \in buttons
    /\ buttons' = buttons \ {b}
    /\ UNCHANGED zoomVars
    /\ IF b = "Right"
       THEN /\ is_panning' = FALSE
            /\ last' = Other
            /\ UNCHANGED <<dragMode, sceneVars>>
       ELSE /\ SceneMouseRelease(p, buttons \ {b})
            /\ UNCHANGED is_panning

\* a ConnectionItem constructed on its own, from any two nodes
ConstructConnection(s, t) ==
    /\ conns' = Append(conns, ConnectionItem(s, t))
    /\ last' = Event("construct", None, s, t, FALSE)
    /\ UNCHANGED <<zoomVars, viewVars, nodes, sceneItems, line_in_progress,
                   start_item, start_pos, grabVars>>

(***************************************************************************)
(* Specifications                                                          *)
(***************************************************************************)
Init ==
    /\ scale = FOne
    /\ zoomIns = 0
    /\ zoomOuts = 0
    /\ is_panning = FALSE
    /\ dragMode = "RubberBandDrag"
    /\ buttons = {}
    /\ nodes = <<>>
    /\ conns = <<>>
    /\ sceneItems = <<>>
    /\ line_in_progress = None
    /\ start_item = NoItem
    /\ start_pos = None
    /\ grabber = NoItem
    /\ buttonDownScenePos = None
    /\ movingItemsInitialPositions = <<>>
    /\ last = Other

\* likewise for the position of a press and of a release: the view does not
\* read it for the right button, nor the scene for a release outside a gesture
\* or for a press that goes to the node holding the grab (the left one first
\* passes the gesture test); moves and releases are tried at the port points
PressPoints(b) ==
    IF b = "Right" \/ (b # "Left" /\ grabber # NoItem) THEN {AnyPoint} ELSE Points
DoubleClickPoints == IF grabber # NoItem THEN {AnyPoint} ELSE Points
ReleasePoints(b) == IF b = "Right" \/ line_in_progress = None THEN {AnyPoint} ELSE PortPoints

\* the step stays within the bounds: the scene is no larger than `size` and
\* every node is at one of the positions of the model
Within(size) ==
    /\ SceneSize(nodes', conns') <= size
    /\ \A n \in 1..Len(nodes') : nodes'[n].pos \in NodePositions

\* the editor: nodes are added and the pointer is pressed, pressed again in a
\* double click, moved and released
Next ==
    \/ \E q \in NodePositions : on_add_node_clicked(q) /\ Within(MaxSceneSize)
    \/ \E b \in Buttons : \E p \in PressPoints(b) : ViewMousePress(b, p)
    \/ \E b \in Buttons, p \in DoubleClickPoints : ViewMouseDoubleClick(b, p)
    \/ \E p \in (IF is_panning THEN {AnyPoint} ELSE MovePoints),
          others \in (IF is_panning THEN {{}} ELSE MoveOthers) :
             ViewMouseMove(p, others) /\ Within(MaxSceneSize)
    \/ \E b \in Buttons : \E p \in ReleasePoints(b) :
             ViewMouseRelease(b, p) /\ Within(MaxSceneSize)

Spec == Init /\ [][Next]_vars

\* the editor while connections are drawn and no node is dragged: the steps
\* of the editor that leave the mouse grab with no node, in a larger scene
\* and with the pointer moved to every port point during a gesture
GestureNext ==
    \/ \E q \in NodePositions : on_add_node_clicked(q) /\ Within(MaxGestureSceneSize)
    \/ \E b \in Buttons : \E p \in PressPoints(b) :
             ViewMousePress(b, p) /\ grabber' = NoItem
    \/ \E b \in Buttons, p \in DoubleClickPoints :
             ViewMouseDoubleClick(b, p) /\ grabber' = NoItem
    \/ \E p \in (IF is_panning THEN {AnyPoint} ELSE GestureMovePoints) :
             ViewMouseMove(p, {})
    \/ \E b \in Buttons : \E p \in ReleasePoints(b) :
             ViewMouseRelease(b, p) /\ Within(MaxGestureSceneSize)

GestureSpec == Init /\ [][GestureNext]_vars

\* the view under wheel events alone
ZoomNext == \E dy \in WheelDeltas : wheelEvent(dy)

ZoomSpec == Init /\ [][ZoomNext]_vars

\* the ConnectionItem constructor applied to every pair of nodes
CtorNext ==
    \/ \E q \in NodePositions : on_add_node_clicked(q) /\ Within(MaxSceneSize)
    \/ \E s \in 1..Len(nodes), t \in 1..Len(nodes) :
          ConstructConnection(s, t) /\ Len(conns') <= MaxConstructed

CtorSpec == Init /\ [][CtorNext]_vars
(***************************************************************************)
(* Properties                                                              *)
(***************************************************************************)
InZoomRange(s) == ~FLess(s, min_zoom) /\ ~FLess(max_zoom, s)

\* 1.25^6 = 3.814697265625 = 0x1.e848p+1
ZoomedInSixTimes == [m |-> <<0, 0, 0, 2120, 30>>, e |-> -51]

OutputPortOf(ns, n) == <<ns[n].pos[1] + 150, ns[n].pos[2] + 50>>
InputPortOf(ns, n)  == <<ns[n].pos[1], ns[n].pos[2] + 50>>

HasLine(items) == \E k \in 1..Len(items) : items[k][1] = "line"
SceneConns(items) == {items[k][2] : k \in {j \in 1..Len(items) : items[j][1] = "conn"}}
Occurrences(items, ref) == Cardinality({k \in 1..Len(items) : items[k] = ref})

\* C1: under any sequence of wheel requests the scale stays within
\* [min_zoom, max_zoom] = [0.25, 4.0], and a request whose product (scale x
\* 1.25 for zoom-in, scale x 0.8 for zoom-out) falls outside that interval
\* leaves the scale unchanged.
C1_ZoomWithinLimits ==
    [][ /\ InZoomRange(scale)
        /\ InZoomRange(scale')
        /\ (zoomIns' = zoomIns + 1 /\ ~InZoomRange(FMul(scale, zoom_in_factor)))
               => scale' = scale
        /\ (zoomOuts' = zoomOuts + 1 /\ ~InZoomRange(FMul(scale, zoom_out_factor)))
               => scale' = scale ]_vars

\* a zoom-out request has been rejected at the lower limit
C1_RejectedAtLowerLimit ==
    /\ zoomIns = 0
    /\ zoomOuts = 7
    /\ FLess(FMul(scale, zoom_out_factor), min_zoom)
    /\ InZoomRange(scale)

\* C2 as stated: from scale 1.0, zoom-in requests alone bring the scale to
\* 4.0 by the 7th request and it stays there.
C2_ClampsAtMaxZoom ==
    (zoomOuts = 0 /\ zoomIns >= 7) => scale = max_zoom

\* C2, amended: from scale 1.0, zoom-in requests alone bring the scale to
\* 1.25^6 = 3.814697265625 by the 6th request, and every later request (the
\* 7th to the 20th) is a no-op that leaves it there, below max_zoom.
C2_StopsBelowMaxZoom ==
    (zoomOuts = 0 /\ zoomIns >= 6) => (scale = ZoomedInSixTimes /\ FLess(scale, max_zoom))

\* twenty zoom-in requests have been made and nothing else
C2_TwentyZoomIns ==
    zoomOuts = 0 /\ zoomIns = 20 /\ scale = ZoomedInSixTimes

\* C3: no connection path is stale: every connection attached to a node starts
\* at its source node's position + (150, 50) and ends at its target node's
\* position + (0, 50), also after a node has been dragged or placed.
C3_NoStalePath ==
    \A n \in 1..Len(nodes) : \A k \in 1..Len(nodes[n].connections) :
        LET c == conns[nodes[n].connections[k]]
        IN  /\ Len(c.path) = 4
            /\ c.path[1] = OutputPortOf(nodes, c.start_item)
            /\ c.path[4] = InputPortOf(nodes, c.end_item)

\* a drag has moved a node with two connections from (0, 0) to (151, 0): it
\* is the source of one, whose target is at (300, 0), and the target of the
\* other, whose source is at (300, 0)
C3_NodeWithTwoConnectionsDragged ==
    /\ "Left" \in buttons
    /\ line_in_progress = None
    /\ grabber # NoItem
    /\ grabber \in DOMAIN movingItemsInitialPositions
    /\ movingItemsInitialPositions[grabber] = <<0, 0>>
    /\ nodes[grabber].pos = <<151, 0>>
    /\ Len(nodes[grabber].connections) = 2
    /\ \E j \in 1..Len(conns), k \in 1..Len(conns) :
          /\ InSeq(j, nodes[grabber].connections)
          /\ conns[j].start_item = grabber
          /\ nodes[conns[j].end_item].pos = <<300, 0>>
          /\ conns[j].path[1] = <<301, 50>>
          /\ conns[j].path[4] = <<300, 50>>
          /\ InSeq(k, nodes[grabber].connections)
          /\ conns[k].end_item = grabber
          /\ nodes[conns[k].start_item].pos = <<300, 0>>
          /\ conns[k].path[1] = <<450, 50>>
          /\ conns[k].path[4] = <<151, 50>>

\* C4: no connection of the scene has the same node as source and target.
C4_NoSelfConnection ==
    \A c \in SceneConns(sceneItems) : conns[c].start_item # conns[c].end_item

\* a gesture has been released on its own source node, exactly on that node's
\* input port, with another node underneath
C4_ReleasedOnSource ==
    /\ last.op = "release"
    /\ last.src # NoItem
    /\ last.item = last.src
    /\ last.pos = InputPortOf(nodes, last.src)
    /\ \E m \in 1..Len(nodes) : m # last.src /\ Contains(nodes[m], last.pos)
    /\ line_in_progress = None

\* C5: a temporary line appears only on a left press whose topmost item is a
\* node and which is at Manhattan distance < 15 from that node's output port,
\* and that node becomes the gesture's source; the source does not change
\* during the gesture; a connection that is created has the gesture's source
\* as its source and the node under the release point as its target.
C5_GestureStartsAtOutputPort ==
    [][ /\ ((line_in_progress = None /\ line_in_progress' # None)
            \/ (~HasLine(sceneItems) /\ HasLine(sceneItems'))) =>
              /\ \E p \in Points : ViewMousePress("Left", p)
              /\ \A p \in Points : ViewMousePress("Left", p) =>
                    LET item == itemAt(sceneItems, nodes, p)
                    IN  /\ item # NoItem
                        /\ manhattanLength(p, OutputPortOf(nodes, item)) < 15
                        /\ start_item' = item
        /\ (start_item # NoItem /\ start_item' # start_item) => start_item' = NoItem
        /\ Len(conns') > Len(conns) =>
              /\ start_item # NoItem
              /\ conns'[Len(conns')].start_item = start_item
              /\ \A b \in Buttons, p \in Points : ViewMouseRelease(b, p) =>
                    conns'[Len(conns')].end_item = itemAt(sceneItems, nodes, p) ]_vars

\* a gesture has just begun at the output port of the upper of two nodes
\* stacked at (0, 0)
C5_GestureFromTopmostNode ==
    /\ Len(nodes) = 2
    /\ nodes[1].pos = <<0, 0>>
    /\ nodes[2].pos = <<0, 0>>
    /\ buttons = {"Left"}
    /\ start_item = 2
    /\ start_pos = <<150, 50>>
    /\ line_in_progress = <<start_pos, start_pos>>
    /\ HasLine(sceneItems)
    /\ dragMode = "NoDrag"

\* C6: a release in DrawingConnection that the scene receives (any button but
\* the right one, which the view keeps) on a node T other than the source S,
\* at Manhattan distance < 15 from T's input port, adds exactly one connection
\* S -> T to the scene and to the attachment lists of S and T, with path start
\* = S's output port and end = T's input port, and changes no other
\* connection; for S at (0, 0) and T at (300, 0) the path runs from (150, 50)
\* to (300, 50).
C6_CommitOnValidRelease ==
    [][ line_in_progress # None => \A b \in Buttons, p \in Points :
          ViewMouseRelease(b, p) /\ b # "Right" =>
             LET S == start_item
                 T == itemAt(sceneItems, nodes, p)
                 c == Len(conns) + 1
             IN  (T # NoItem /\ T # S /\ manhattanLength(p, InputPortOf(nodes, T)) < 15) =>
                    /\ Len(conns') = c
                    /\ \A j \in 1..Len(conns) : conns'[j] = conns[j]
                    /\ conns'[c].start_item = S
                    /\ conns'[c].end_item = T
                    /\ conns'[c].path[1] = OutputPortOf(nodes, S)
                    /\ conns'[c].path[4] = InputPortOf(nodes, T)
                    /\ (nodes[S].pos = <<0, 0>> /\ nodes[T].pos = <<300, 0>>) =>
                          (conns'[c].path[1] = <<150, 50>> /\ conns'[c].path[4] = <<300, 50>>)
                    /\ SceneConns(sceneItems') = SceneConns(sceneItems) \cup {c}
                    /\ Occurrences(sceneItems', <<"conn", c>>) = 1
                    /\ Len(nodes') = Len(nodes)
                    /\ \A n \in 1..Len(nodes) :
                          /\ nodes'[n].pos = nodes[n].pos
                          /\ nodes'[n].connections =
                                IF n \in {S, T} THEN Append(nodes[n].connections, c)
                                ELSE nodes[n].connections ]_vars

\* the gesture of scenario 1 has been completed, from the node at (0, 0) to
\* the input port of the node at (300, 0), in a scene that already held a
\* connection between the source and a third node: the new connection is the
\* second of the scene and of the source's list, and the third node's list is
\* as it was
C6_SecondConnectionCommitted ==
    /\ last.op = "release"
    /\ last.commit
    /\ last.pos = <<300, 50>>
    /\ nodes[last.src].pos = <<0, 0>>
    /\ nodes[last.item].pos = <<300, 0>>
    /\ Len(nodes) = 3
    /\ Len(conns) = 2
    /\ conns[2].start_item = last.src
    /\ conns[2].end_item = last.item
    /\ conns[2].path[1] = <<150, 50>>
    /\ conns[2].path[4] = <<300, 50>>
    /\ SceneConns(sceneItems) = {1, 2}
    /\ nodes[last.src].connections = <<1, 2>>
    /\ nodes[last.item].connections = <<2>>
    /\ \E x \in 1..Len(nodes) :
          /\ x \notin {last.src, last.item}
          /\ nodes[x].connections = <<1>>
          /\ conns[1].end_item = x

\* C7: a pointer-up in DrawingConnection that the scene receives (any button
\* but the right one, which the view keeps) removes the temporary line from the
\* scene and resets line_in_progress, start_item and start_pos; when the
\* release is over empty canvas, over the source node, or over a node but not
\* within the threshold of its input port, the connections, the attachment
\* lists and the scene's other items are unchanged.
C7_ReleaseEndsGesture ==
    [][ line_in_progress # None => \A b \in Buttons, p \in Points :
          ViewMouseRelease(b, p) /\ b # "Right" =>
             LET T == itemAt(sceneItems, nodes, p)
             IN  /\ line_in_progress' = None
                 /\ start_item' = NoItem
                 /\ start_pos' = None
                 /\ ~HasLine(sceneItems')
                 /\ (T = NoItem \/ T = start_item
                     \/ manhattanLength(p, InputPortOf(nodes, T)) >= 15) =>
                        /\ conns' = conns
                        /\ nodes' = nodes
                        /\ sceneItems' = SelectSeq(sceneItems, LAMBDA it : it[1] # "line") ]_vars

\* a gesture has been released over empty canvas (scenario 3)
C7_CancelledOverEmptyCanvas ==
    /\ last.op = "release"
    /\ last.src # NoItem
    /\ last.item = NoItem
    /\ ~last.commit
    /\ conns = <<>>
    /\ line_in_progress = None
    /\ start_item = NoItem
    /\ ~HasLine(sceneItems)

\* C8: every connection of the scene is in the attachment lists of its source
\* and of its target, and every entry of an attachment list is a connection
\* of the scene that has that node as source or target.
C8_BidirectionalConsistency ==
    /\ \A c \in SceneConns(sceneItems) :
          /\ InSeq(c, nodes[conns[c].start_item].connections)
          /\ InSeq(c, nodes[conns[c].end_item].connections)
    /\ \A n \in 1..Len(nodes) : \A k \in 1..Len(nodes[n].connections) :
          LET c == nodes[n].connections[k]
          IN  /\ c \in SceneConns(sceneItems)
              /\ (conns[c].start_item = n \/ conns[c].end_item = n)

\* two connections are in the scene, and each is in the attachment lists of
\* its two nodes; one node is attached to both
C8_TwoConnectionsAttached ==
    /\ SceneConns(sceneItems) = {1, 2}
    /\ \A c \in {1, 2} :
          /\ InSeq(c, nodes[conns[c].start_item].connections)
          /\ InSeq(c, nodes[conns[c].end_item].connections)
    /\ \E n \in 1..Len(nodes) : nodes[n].connections = <<1, 2>>

\* C9 as stated: constructing a ConnectionItem with the same node as source
\* and target produces no connection.
C9_ConstructorRejectsSelfLoop ==
    [][ \A s \in 1..Len(nodes) : ConstructConnection(s, s) => conns' = conns ]_vars

\* C9, amended: the constructor makes no check; it produces an item that holds
\* exactly the two nodes it was given, also when they are the same node, and
\* an empty path.
C9_ConstructorStoresItsArguments ==
    last.op = "construct" =>
        /\ conns # <<>>
        /\ conns[Len(conns)].start_item = last.src
        /\ conns[Len(conns)].end_item = last.item
        /\ conns[Len(conns)].path = <<>>

\* the constructor has been given the same node twice and has produced an item
C9_SelfLoopConstructed ==
    /\ last.op = "construct"
    /\ last.src = last.item
    /\ conns[Len(conns)].start_item = conns[Len(conns)].end_item

\* C10: while a connection is being drawn every pointer move sets the free end
\* of the temporary line to the pointer's scene position and changes nothing
\* else, also when a right-button pan has begun during the gesture.
C10_LineTracksPointer ==
    [][ line_in_progress # None => \A p \in Points :
          ViewMouseMove(p, {}) =>
             /\ line_in_progress' = <<start_pos, p>>
             /\ UNCHANGED <<zoomVars, viewVars, nodes, conns, sceneItems,
                            start_item, start_pos, grabVars>> ]_vars

====
